---- MODULE Spec2Model ----
(***************************************************************************)
(* Model of solve-hex.cpp: the constraint-guided backtracking searches for *)
(* the order-3 magic hexagon.  The recursion of the C++ code is modelled   *)
(* as an explicit call stack; one action is one step of the function on    *)
(* top of the stack (entering a callee, or resuming after it returned).    *)
(***************************************************************************)
EXTENDS Integers, Sequences, FiniteSets, TLC

N_Hexes == 19
Required_Sum == 38

Cells == 0 .. (N_Hexes - 1)
Values == 1 .. N_Hexes

(* uint8_t conversion of an int *)
U8(x) == x % 256

RECURSIVE SumAt(_, _)
(* (board[idxs] + ...): the ints board[i] for i in the tuple idxs, added *)
SumAt(board, idxs) ==
  IF idxs = << >> THEN 0 ELSE board[Head(idxs)] + SumAt(board, Tail(idxs))

sum_correct(board, idxs) == SumAt(board, idxs) = Required_Sum

(* spiral_solution_is_correct: the 15 hard-coded index tuples, cells        *)
(* labelled in spiral order                                                *)
spiral_solution_is_correct(board) ==
  /\ sum_correct(board, <<0, 1, 2>>)
  /\ sum_correct(board, <<11, 12, 13, 3>>)
  /\ sum_correct(board, <<10, 17, 18, 14, 4>>)
  /\ sum_correct(board, <<9, 16, 15, 5>>)
  /\ sum_correct(board, <<8, 7, 6>>)
  /\ sum_correct(board, <<0, 11, 10>>)
  /\ sum_correct(board, <<1, 12, 17, 9>>)
  /\ sum_correct(board, <<2, 13, 18, 16, 8>>)
  /\ sum_correct(board, <<3, 14, 15, 7>>)
  /\ sum_correct(board, <<4, 5, 6>>)
  /\ sum_correct(board, <<2, 3, 4>>)
  /\ sum_correct(board, <<1, 13, 14, 5>>)
  /\ sum_correct(board, <<0, 12, 18, 15, 6>>)
  /\ sum_correct(board, <<11, 17, 16, 7>>)
  /\ sum_correct(board, <<10, 9, 8>>)

(* a faulty table, whose first line ends in cell 3 *)
hex_lines_typo ==
  << <<0, 1, 3>>, <<3, 4, 5, 6>>, <<7, 8, 9, 10, 11>>, <<12, 13, 14, 15>>,
     <<16, 17, 18>>, <<0, 3, 7>>, <<1, 4, 8, 12>>, <<2, 5, 9, 13, 16>>,
     <<6, 10, 14, 17>>, <<11, 15, 18>>, <<2, 6, 11>>, <<1, 5, 10, 15>>,
     <<0, 4, 9, 14, 18>>, <<3, 8, 13, 17>>, <<7, 12, 16>> >>

(* hex_lines: the 15 lines, cells labelled in raster order *)
hex_lines ==
  << <<0, 1, 2>>, <<3, 4, 5, 6>>, <<7, 8, 9, 10, 11>>, <<12, 13, 14, 15>>,
     <<16, 17, 18>>, <<0, 3, 7>>, <<1, 4, 8, 12>>, <<2, 5, 9, 13, 16>>,
     <<6, 10, 14, 17>>, <<11, 15, 18>>, <<2, 6, 11>>, <<1, 5, 10, 15>>,
     <<0, 4, 9, 14, 18>>, <<3, 8, 13, 17>>, <<7, 12, 16>> >>

(* CheckHardcoded::is_solution: the 15 hard-coded index tuples, cells      *)
(* labelled in raster order (its attempt counter is the history `full`;    *)
(* the searches stay far below n_attempts_bail)                            *)
is_solution(board) ==
  /\ sum_correct(board, <<0, 1, 2>>)
  /\ sum_correct(board, <<3, 4, 5, 6>>)
  /\ sum_correct(board, <<7, 8, 9, 10, 11>>)
  /\ sum_correct(board, <<12, 13, 14, 15>>)
  /\ sum_correct(board, <<16, 17, 18>>)
  /\ sum_correct(board, <<0, 3, 7>>)
  /\ sum_correct(board, <<1, 4, 8, 12>>)
  /\ sum_correct(board, <<2, 5, 9, 13, 16>>)
  /\ sum_correct(board, <<6, 10, 14, 17>>)
  /\ sum_correct(board, <<11, 15, 18>>)
  /\ sum_correct(board, <<2, 6, 11>>)
  /\ sum_correct(board, <<1, 5, 10, 15>>)
  /\ sum_correct(board, <<0, 4, 9, 14, 18>>)
  /\ sum_correct(board, <<3, 8, 13, 17>>)
  /\ sum_correct(board, <<7, 12, 16>>)

(* The two labellings of the comment at the head of the source: the cell   *)
(* at raster position r carries the spiral label SpiralOfRaster[r + 1].    *)
SpiralOfRaster ==
  <<0, 1, 2, 11, 12, 13, 3, 10, 17, 18, 14, 4, 9, 16, 15, 5, 8, 7, 6>>

(* the switch of solve(): the steps that branch, and the cells a deduce    *)
(* step adds up                                                            *)
ChooseSteps == {0, 1, 3, 5, 7, 9, 12}

DeduceSteps == {2, 4, 6, 8, 10, 11, 13, 14, 15, 16, 17, 18}

(* a faulty table, whose step 17 names cell 15 where the line has cell 16 *)
DeduceIdxs_wrong_line(n) ==
  CASE n = 2 -> <<0, 1>>
    [] n = 4 -> <<2, 3>>
    [] n = 6 -> <<4, 5>>
    [] n = 8 -> <<7, 6>>
    [] n = 10 -> <<8, 9>>
    [] n = 11 -> <<0, 10>>
    [] n = 13 -> <<3, 11, 12>>
    [] n = 14 -> <<1, 5, 13>>
    [] n = 15 -> <<3, 7, 14>>
    [] n = 16 -> <<5, 9, 15>>
    [] n = 17 -> <<7, 11, 15>>
    [] n = 18 -> <<4, 10, 14, 17>>

DeduceIdxs(n) ==
  CASE n = 2 -> <<0, 1>>
    [] n = 4 -> <<2, 3>>
    [] n = 6 -> <<4, 5>>
    [] n = 8 -> <<7, 6>>
    [] n = 10 -> <<8, 9>>
    [] n = 11 -> <<0, 10>>
    [] n = 13 -> <<3, 11, 12>>
    [] n = 14 -> <<1, 5, 13>>
    [] n = 15 -> <<3, 7, 14>>
    [] n = 16 -> <<5, 9, 15>>
    [] n = 17 -> <<7, 11, 16>>
    [] n = 18 -> <<4, 10, 14, 17>>

(***************************************************************************)
(* State.  A run of one strategy of the table `strategies`: its live state *)
(* objects, its active calls and the boards it has passed to its sink.     *)
(* Every operation of the program is an operator from machine states to    *)
(* machine states (its "...Do", enabled where its "...On" holds) and an    *)
(* action that applies it to the current state.                            *)
(***************************************************************************)
VARIABLES
  strategy,  \* the label of the strategy that runs
  objs,      \* the live state objects, innermost last
  stack,     \* the active calls, innermost last
  sunk,      \* the boards passed to consume_fun, in order
  full,      \* history: the number of calls that found the board full
  done,      \* the top-level call has returned
  steps,     \* history: the number of single steps taken
  other      \* the machine state of a second run that is observed with this one

vars == <<strategy, objs, stack, sunk, full, done, steps, other>>

(* the current machine state *)
M ==
  [strategy |-> strategy, objs |-> objs, stack |-> stack, sunk |-> sunk,
   full |-> full, done |-> done]

(* the next machine state is m *)
Becomes(m) ==
  \E r \in {m} :
    /\ strategy' = r.strategy
    /\ objs' = r.objs
    /\ stack' = r.stack
    /\ sunk' = r.sunk
    /\ full' = r.full
    /\ done' = r.done

(* single steps are followed up to the MaxSteps-th of a run *)
MaxSteps == 400000

(* the action that takes a step of the program: `on` says where it is      *)
(* taken, `do` is the machine state it leaves                              *)
Action(on, do) ==
  /\ steps < MaxSteps
  /\ on
  /\ Becomes(do)
  /\ steps' = steps + 1
  /\ UNCHANGED other

ArrayStrategies == {"deduce-array", "deduce-array-swap"}

DeduceStrategies == ArrayStrategies \cup {"deduce"}

Strategies == DeduceStrategies \cup {"line-by-line-check"}

(* the template argument RS of the array strategies of the table *)
RS(m) ==
  IF m.strategy = "deduce-array" THEN "CreateNew" ELSE "SwapAndSwapBack"

(* A frame is one active call of a solve function together with the choose *)
(* or deduce it dispatched to:                                             *)
(*   obj    the object the call runs on (index into the live objects)      *)
(*   pc     "solve": entered; "first": in choose of the array engine,      *)
(*          inside the in-place call; "loop": inside the call of loop      *)
(*          iteration i; "deduced": inside the call of a deduce step       *)
(*   i      the loop variable; in a deduce step the index that was found   *)
(*   entry  history, kept for the calls on an ArrayBoardState, which       *)
(*          mutate it: the object's value when the call was entered        *)
Frame(obj, s) == [obj |-> obj, pc |-> "solve", i |-> 0, entry |-> s]

Top(m) == m.stack[Len(m.stack)]
This(m) == m.objs[Top(m).obj]
Pop(sq) == SubSeq(sq, 1, Len(sq) - 1)

(* m after a step that leaves the objects o and the calls k *)
Go(m, o, k) == [m EXCEPT !.objs = o, !.stack = k]

(* the calls with the top frame replaced by f and the frame g pushed *)
Call(m, f, g) == Append([m.stack EXCEPT ![Len(m.stack)] = f], g)

(* m after the board was passed to consume_fun *)
Consume(m, board) == [m EXCEPT !.sunk = Append(@, board)]

Running(m) == ~m.done /\ m.stack # << >>

(***************************************************************************)
(* ArrayBoardState                                                         *)
(***************************************************************************)

(* std::iota(numbers.begin(), numbers.end(), 1), n_cells_filled(0) *)
NewArrayBoardState ==
  [numbers |-> [c \in Cells |-> c + 1], n_cells_filled |-> 0]

(* std::swap(numbers[a], numbers[b]) *)
SwapNumbers(numbers, a, b) ==
  [numbers EXCEPT ![a] = numbers[b], ![b] = numbers[a]]

(* a faulty search, which starts at numbers.begin() *)
find_needed_from_begin(s, needed_value) ==
  LET hits == {i \in 0 .. (N_Hexes - 1) : s.numbers[i] = needed_value}
  IN IF hits = {} THEN N_Hexes
     ELSE CHOOSE i \in hits : \A j \in hits : i <= j

(* the first i in n_cells_filled .. 18 with numbers[i] = needed_value,     *)
(* N_Hexes when there is none                                              *)
find_needed(s, needed_value) ==
  LET hits == {i \in s.n_cells_filled .. (N_Hexes - 1) :
                 s.numbers[i] = needed_value}
  IN IF hits = {} THEN N_Hexes
     ELSE CHOOSE i \in hits : \A j \in hits : i <= j

find_needed_from_idxs(s, have_idxs) ==
  find_needed(s, U8(Required_Sum - SumAt(s.numbers, have_idxs)))

(* std::swap(numbers[n_cells_filled], numbers[i]); ++n_cells_filled *)
Placed(s, i) ==
  [numbers |-> SwapNumbers(s.numbers, s.n_cells_filled, i),
   n_cells_filled |-> s.n_cells_filled + 1]

(* a faulty restore, which forgets the swap back *)
Unplaced_no_swap_back(s, i) ==
  [numbers |-> s.numbers, n_cells_filled |-> s.n_cells_filled - 1]

(* --n_cells_filled; std::swap(numbers[n_cells_filled], numbers[i]) *)
Unplaced(s, i) ==
  [numbers |-> SwapNumbers(s.numbers, s.n_cells_filled - 1, i),
   n_cells_filled |-> s.n_cells_filled - 1]

(* the initial value of the loop variable of choose<RS>() *)
FirstLoopIdx(s) == s.n_cells_filled + 1

(* choose<RS>(), first statements: ++n_cells_filled; solve<RS>() on *this *)
ChooseEnterOn(m) ==
  /\ Running(m)
  /\ m.strategy \in ArrayStrategies
  /\ Top(m).pc = "solve"
  /\ This(m).n_cells_filled \in ChooseSteps

ChooseEnterDo(m) ==
  LET s == [This(m) EXCEPT !.n_cells_filled = @ + 1]
  IN Go(m, [m.objs EXCEPT ![Top(m).obj] = s],
        Call(m, [Top(m) EXCEPT !.pc = "first"], Frame(Top(m).obj, s)))

ChooseEnter == Action(ChooseEnterOn(M), ChooseEnterDo(M))

(* choose<CreateNew>(), after a call returned: --n_cells_filled after the  *)
(* in-place call, the clone destroyed after an iteration; then the next    *)
(* iteration clones, swaps in the clone and calls solve on it, or the loop *)
(* ends and choose returns                                                 *)
ChooseCreateNewOn(m) ==
  /\ Running(m)
  /\ m.strategy \in ArrayStrategies
  /\ RS(m) = "CreateNew"
  /\ Top(m).pc \in {"first", "loop"}

ChooseCreateNewDo(m) ==
  LET first == Top(m).pc = "first"
      live == IF first
              THEN [m.objs EXCEPT ![Top(m).obj].n_cells_filled = @ - 1]
              ELSE Pop(m.objs)
      s == live[Top(m).obj]
      i == IF first THEN FirstLoopIdx(s) ELSE Top(m).i + 1
  IN IF i # N_Hexes
     THEN LET swapped_state == Placed(s, i)
          IN Go(m, Append(live, swapped_state),
                Call(m, [Top(m) EXCEPT !.pc = "loop", !.i = i],
                     Frame(Len(live) + 1, swapped_state)))
     ELSE Go(m, live, Pop(m.stack))

ChooseCreateNew == Action(ChooseCreateNewOn(M), ChooseCreateNewDo(M))

(* choose<SwapAndSwapBack>(), after a call returned: --n_cells_filled, and *)
(* after an iteration the swap back; then the next iteration swaps in      *)
(* place and calls solve, or the loop ends and choose returns              *)
ChooseSwapAndSwapBackOn(m) ==
  /\ Running(m)
  /\ m.strategy \in ArrayStrategies
  /\ RS(m) = "SwapAndSwapBack"
  /\ Top(m).pc \in {"first", "loop"}

ChooseSwapAndSwapBackDo(m) ==
  LET first == Top(m).pc = "first"
      s == IF first
           THEN [This(m) EXCEPT !.n_cells_filled = @ - 1]
           ELSE Unplaced(This(m), Top(m).i)
      i == IF first THEN FirstLoopIdx(s) ELSE Top(m).i + 1
  IN IF i # N_Hexes
     THEN Go(m, [m.objs EXCEPT ![Top(m).obj] = Placed(s, i)],
             Call(m, [Top(m) EXCEPT !.pc = "loop", !.i = i],
                  Frame(Top(m).obj, Placed(s, i))))
     ELSE Go(m, [m.objs EXCEPT ![Top(m).obj] = s], Pop(m.stack))

ChooseSwapAndSwapBack ==
  Action(ChooseSwapAndSwapBackOn(M), ChooseSwapAndSwapBackDo(M))

(* deduce<CreateNew>(...) and deduce_from_idx<CreateNew>(maybe_needed_idx) *)
(* up to its call of solve                                                 *)
DeduceCreateNewOn(m) ==
  /\ Running(m)
  /\ m.strategy \in ArrayStrategies
  /\ RS(m) = "CreateNew"
  /\ Top(m).pc = "solve"
  /\ This(m).n_cells_filled \in DeduceSteps

DeduceCreateNewDo(m) ==
  LET maybe_needed_idx ==
        find_needed_from_idxs(This(m), DeduceIdxs(This(m).n_cells_filled))
  IN IF maybe_needed_idx # N_Hexes
     THEN LET swapped_state == Placed(This(m), maybe_needed_idx)
          IN Go(m, Append(m.objs, swapped_state),
                Call(m, [Top(m) EXCEPT !.pc = "deduced",
                                        !.i = maybe_needed_idx],
                     Frame(Len(m.objs) + 1, swapped_state)))
     ELSE Go(m, m.objs, Pop(m.stack))

DeduceCreateNew == Action(DeduceCreateNewOn(M), DeduceCreateNewDo(M))

(* deduce<SwapAndSwapBack>(...) and deduce_from_idx<SwapAndSwapBack>, up   *)
(* to its call of solve                                                    *)
DeduceSwapAndSwapBackOn(m) ==
  /\ Running(m)
  /\ m.strategy \in ArrayStrategies
  /\ RS(m) = "SwapAndSwapBack"
  /\ Top(m).pc = "solve"
  /\ This(m).n_cells_filled \in DeduceSteps

DeduceSwapAndSwapBackDo(m) ==
  LET maybe_needed_idx ==
        find_needed_from_idxs(This(m), DeduceIdxs(This(m).n_cells_filled))
  IN IF maybe_needed_idx # N_Hexes
     THEN LET s == Placed(This(m), maybe_needed_idx)
          IN Go(m, [m.objs EXCEPT ![Top(m).obj] = s],
                Call(m, [Top(m) EXCEPT !.pc = "deduced",
                                        !.i = maybe_needed_idx],
                     Frame(Top(m).obj, s)))
     ELSE Go(m, m.objs, Pop(m.stack))

DeduceSwapAndSwapBack ==
  Action(DeduceSwapAndSwapBackOn(M), DeduceSwapAndSwapBackDo(M))

(* a faulty return from deduce_from_idx, which restores nothing *)
DeduceReturnDo_no_restore(m) == Go(m, m.objs, Pop(m.stack))

(* deduce_from_idx<RS>, after its call returned: the clone is destroyed    *)
(* (CreateNew), or --n_cells_filled and the swap back (SwapAndSwapBack)    *)
DeduceReturnOn(m) ==
  /\ Running(m)
  /\ m.strategy \in ArrayStrategies
  /\ Top(m).pc = "deduced"

DeduceReturnDo(m) ==
  Go(m,
     IF RS(m) = "CreateNew"
     THEN Pop(m.objs)
     ELSE [m.objs EXCEPT ![Top(m).obj] = Unplaced(This(m), Top(m).i)],
     Pop(m.stack))

DeduceReturn == Action(DeduceReturnOn(M), DeduceReturnDo(M))

(* solve<RS>(), case 19 *)
SolveFullOn(m) ==
  /\ Running(m)
  /\ m.strategy \in ArrayStrategies
  /\ Top(m).pc = "solve"
  /\ This(m).n_cells_filled = N_Hexes

SolveFullDo(m) ==
  LET r == [Go(m, m.objs, Pop(m.stack)) EXCEPT !.full = @ + 1]
  IN IF spiral_solution_is_correct(This(m).numbers)
     THEN Consume(r, This(m).numbers)
     ELSE r

SolveFull == Action(SolveFullOn(M), SolveFullDo(M))

(***************************************************************************)
(* BoardState                                                              *)
(***************************************************************************)

(* the vector v as the function of its 0-based indexes *)
Vec0(v) == [c \in 0 .. (Len(v) - 1) |-> v[c + 1]]

(* the vector v without the element at the 0-based index idx *)
Erase(v, idx) == SubSeq(v, 1, idx) \o SubSeq(v, idx + 2, Len(v))

(* BoardState(): board empty, available = 1, ..., 19 *)
NewBoardState == [board |-> << >>, available |-> [k \in Values |-> k]]

(* a faulty move, which fills the hole with the last available value *)
move_to_board_swap_remove(s, available_idx) ==
  [board |-> Append(s.board, s.available[available_idx + 1]),
   available |->
     Pop([s.available EXCEPT
            ![available_idx + 1] = s.available[Len(s.available)]])]

(* a faulty move, which forgets the erase *)
move_to_board_no_erase(s, available_idx) ==
  [board |-> Append(s.board, s.available[available_idx + 1]),
   available |-> s.available]

(* board.push_back(available[available_idx]); available.erase(...) *)
move_to_board(s, available_idx) ==
  [board |-> Append(s.board, s.available[available_idx + 1]),
   available |-> Erase(s.available, available_idx)]

(* std::find(available.begin(), available.end(), needed): the 0-based      *)
(* index of the first hit, available.size() when there is none             *)
FindAvailable(s, needed) ==
  LET hits == {k \in 1 .. Len(s.available) : s.available[k] = needed}
  IN IF hits = {} THEN Len(s.available)
     ELSE (CHOOSE k \in hits : \A j \in hits : k <= j) - 1

(* choose(): at entry or after the call of an iteration returned and its   *)
(* new_state was destroyed, the next iteration copies the state, moves     *)
(* available[i] to the copy's board and calls solve on the copy, or the    *)
(* loop ends and choose returns                                            *)
BoardChooseOn(m) ==
  /\ Running(m)
  /\ m.strategy = "deduce"
  /\ \/ Top(m).pc = "loop"
     \/ Top(m).pc = "solve" /\ Len(This(m).board) \in ChooseSteps

BoardChooseDo(m) ==
  LET first == Top(m).pc = "solve"
      live == IF first THEN m.objs ELSE Pop(m.objs)
      s == live[Top(m).obj]
      i == IF first THEN 0 ELSE Top(m).i + 1
  IN IF i # Len(s.available)
     THEN Go(m, Append(live, move_to_board(s, i)),
             Call(m, [Top(m) EXCEPT !.pc = "loop", !.i = i],
                  Frame(Len(live) + 1, << >>)))
     ELSE Go(m, live, Pop(m.stack))

BoardChoose == Action(BoardChooseOn(M), BoardChooseDo(M))

(* deduce(idxs...), up to its call of solve on the copy *)
BoardDeduceOn(m) ==
  /\ Running(m)
  /\ m.strategy = "deduce"
  /\ Top(m).pc = "solve"
  /\ Len(This(m).board) \in DeduceSteps

BoardDeduceDo(m) ==
  LET s == This(m)
      needed == U8(Required_Sum
                     - SumAt(Vec0(s.board), DeduceIdxs(Len(s.board))))
      needed_idx == FindAvailable(s, needed)
  IN IF needed_idx # Len(s.available)
     THEN Go(m, Append(m.objs, move_to_board(s, needed_idx)),
             Call(m, [Top(m) EXCEPT !.pc = "deduced", !.i = needed_idx],
                  Frame(Len(m.objs) + 1, << >>)))
     ELSE Go(m, m.objs, Pop(m.stack))

BoardDeduce == Action(BoardDeduceOn(M), BoardDeduceDo(M))

(* deduce(idxs...), after its call returned: new_state is destroyed *)
BoardDeduceReturnOn(m) ==
  /\ Running(m)
  /\ m.strategy = "deduce"
  /\ Top(m).pc = "deduced"

BoardDeduceReturnDo(m) == Go(m, Pop(m.objs), Pop(m.stack))

BoardDeduceReturn == Action(BoardDeduceReturnOn(M), BoardDeduceReturnDo(M))

(* solve_deduce_last_cell_of_line(), case 19 *)
BoardFullOn(m) ==
  /\ Running(m)
  /\ m.strategy = "deduce"
  /\ Top(m).pc = "solve"
  /\ Len(This(m).board) = N_Hexes

BoardFullDo(m) ==
  LET r == [Go(m, m.objs, Pop(m.stack)) EXCEPT !.full = @ + 1]
  IN IF is_solution(Vec0(This(m).board))
     THEN Consume(r, Vec0(This(m).board))
     ELSE r

BoardFull == Action(BoardFullOn(M), BoardFullDo(M))

(***************************************************************************)
(* BoardState, the line-by-line search in raster order                     *)
(***************************************************************************)

(* the search below a call is followed for at most MaxDepth placements *)
MaxDepth == 4

(* a faulty check, which tests each line one cell after it is complete *)
incorrect_already_one_late(s) ==
  \E l \in 1 .. Len(hex_lines) :
    /\ \A j \in 1 .. Len(hex_lines[l]) : hex_lines[l][j] + 2 <= Len(s.board)
    /\ \E j \in 1 .. Len(hex_lines[l]) : hex_lines[l][j] + 2 = Len(s.board)
    /\ ~sum_correct(Vec0(s.board), hex_lines[l])

(* incorrect_already<FillOrder::Raster>() *)
incorrect_already(s) ==
  LET n_filled == Len(s.board)
      board == Vec0(s.board)
  IN \/ n_filled = 3 /\ ~sum_correct(board, <<0, 1, 2>>)
     \/ n_filled = 7 /\ ~sum_correct(board, <<3, 4, 5, 6>>)
     \/ n_filled = 8 /\ ~sum_correct(board, <<0, 3, 7>>)
     \/ n_filled = 12 /\ ~sum_correct(board, <<7, 8, 9, 10, 11>>)
     \/ n_filled = 12 /\ ~sum_correct(board, <<2, 6, 11>>)
     \/ n_filled = 13 /\ ~sum_correct(board, <<1, 4, 8, 12>>)
     \/ n_filled = 16 /\ ~sum_correct(board, <<12, 13, 14, 15>>)
     \/ n_filled = 16 /\ ~sum_correct(board, <<1, 5, 10, 15>>)
     \/ n_filled = 17 /\ ~sum_correct(board, <<7, 12, 16>>)
     \/ n_filled = 17 /\ ~sum_correct(board, <<2, 5, 9, 13, 16>>)
     \/ n_filled = 18 /\ ~sum_correct(board, <<3, 8, 13, 17>>)
     \/ n_filled = 18 /\ ~sum_correct(board, <<6, 10, 14, 17>>)
     \/ n_filled = 19 /\ ~sum_correct(board, <<0, 4, 9, 14, 18>>)
     \/ n_filled = 19 /\ ~sum_correct(board, <<11, 15, 18>>)
     \/ n_filled = 19 /\ ~sum_correct(board, <<16, 17, 18>>)

(* the placements between the call the run started with and the top call *)
Depth(m) == Len(m.stack) - 1

(* solve_test_as_lines_filled<Raster>(), from its entry up to the call of  *)
(* the first loop iteration                                                *)
LinesEnterOn(m) ==
  /\ Running(m)
  /\ m.strategy = "line-by-line-check"
  /\ Top(m).pc = "solve"

LinesEnterDo(m) ==
  LET s == This(m)
  IN IF incorrect_already(s)
     THEN Go(m, m.objs, Pop(m.stack))
     ELSE IF Len(s.available) = 0
     THEN Consume(Go(m, m.objs, Pop(m.stack)), Vec0(s.board))
     ELSE IF Depth(m) >= MaxDepth
     THEN Go(m, m.objs, Pop(m.stack))
     ELSE Go(m, Append(m.objs, move_to_board(s, 0)),
             Call(m, [Top(m) EXCEPT !.pc = "loop", !.i = 0],
                  Frame(Len(m.objs) + 1, << >>)))

LinesEnter == Action(LinesEnterOn(M), LinesEnterDo(M))

(* solve_test_as_lines_filled<Raster>(), after the call of an iteration    *)
(* returned: new_board_state is destroyed, then the next iteration or the  *)
(* end of the loop                                                         *)
LinesLoopOn(m) ==
  /\ Running(m)
  /\ m.strategy = "line-by-line-check"
  /\ Top(m).pc = "loop"

LinesLoopDo(m) ==
  LET live == Pop(m.objs)
      s == live[Top(m).obj]
      idx == Top(m).i + 1
  IN IF idx # Len(s.available)
     THEN Go(m, Append(live, move_to_board(s, idx)),
             Call(m, [Top(m) EXCEPT !.i = idx], Frame(Len(live) + 1, << >>)))
     ELSE Go(m, live, Pop(m.stack))

LinesLoop == Action(LinesLoopOn(M), LinesLoopDo(M))

(***************************************************************************)
(* Runs                                                                    *)
(***************************************************************************)

(* the top-level call has returned *)
FinishOn(m) == ~m.done /\ m.stack = << >>

FinishDo(m) == [m EXCEPT !.done = TRUE]

Finish == Action(FinishOn(M), FinishDo(M))

(* the step the program takes in m; m itself once the run is over *)
Step(m) ==
  IF m.done THEN m
  ELSE IF m.stack = << >> THEN FinishDo(m)
  ELSE IF m.strategy \in ArrayStrategies
  THEN IF Top(m).pc = "solve"
       THEN IF ChooseEnterOn(m) THEN ChooseEnterDo(m)
            ELSE IF SolveFullOn(m) THEN SolveFullDo(m)
            ELSE IF DeduceCreateNewOn(m) THEN DeduceCreateNewDo(m)
            ELSE DeduceSwapAndSwapBackDo(m)
       ELSE IF DeduceReturnOn(m) THEN DeduceReturnDo(m)
            ELSE IF ChooseCreateNewOn(m) THEN ChooseCreateNewDo(m)
            ELSE ChooseSwapAndSwapBackDo(m)
  ELSE IF m.strategy = "deduce"
  THEN IF BoardChooseOn(m) THEN BoardChooseDo(m)
       ELSE IF BoardDeduceOn(m) THEN BoardDeduceDo(m)
       ELSE IF BoardDeduceReturnOn(m) THEN BoardDeduceReturnDo(m)
       ELSE BoardFullDo(m)
  ELSE IF LinesEnterOn(m) THEN LinesEnterDo(m)
       ELSE LinesLoopDo(m)

RECURSIVE Run(_, _)
(* m after 2^e steps, each step evaluated before the next is taken *)
Run(m, e) ==
  IF e = 0 THEN Step(m)
  ELSE CHOOSE r \in {Run(x, e - 1) : x \in {Run(m, e - 1)}} : TRUE

(* the temporary a strategy of the table constructs and calls solve on *)
NewState(label) ==
  IF label \in ArrayStrategies THEN NewArrayBoardState ELSE NewBoardState

(* an observer looks at the runs every 2^StrideLog steps *)
StrideLog == 10

Advance ==
  /\ ~(done /\ other.done)
  /\ Becomes(Run(M, StrideLog))
  /\ other' = Run(other, StrideLog)
  /\ UNCHANGED steps

(* the first magic hexagon the deduction engines find, in spiral order *)
SpiralSeed ==
  <<3, 17, 18, 11, 9, 14, 15, 13, 10, 12, 16, 19, 7, 1, 6, 8, 4, 2, 5>>

(* the same hexagon in raster order *)
RasterSeed == [r \in 1 .. N_Hexes |-> SpiralSeed[SpiralOfRaster[r] + 1]]

RECURSIVE ArraySeed(_)
(* the ArrayBoardState solve<RS>() is called on once the first k values of *)
(* SpiralSeed are placed: each was swapped into its cell from where it was *)
ArraySeed(k) ==
  IF k = 0 THEN NewArrayBoardState
  ELSE LET s == ArraySeed(k - 1)
       IN Placed(s, find_needed(s, SpiralSeed[k]))

RECURSIVE BoardSeed(_, _)
(* the BoardState a search is called on once the first k values of the     *)
(* hexagon `order` are placed: each was moved from where it was            *)
BoardSeed(order, k) ==
  IF k = 0 THEN NewBoardState
  ELSE LET s == BoardSeed(order, k - 1)
       IN move_to_board(s, FindAvailable(s, order[k]))

(* the object the strategy `label` calls itself on along its hexagon; the  *)
(* temporary the table constructs when k = 0                               *)
SeedState(label, k) ==
  IF label \in ArrayStrategies THEN ArraySeed(k)
  ELSE IF label = "deduce" THEN BoardSeed(SpiralSeed, k)
  ELSE BoardSeed(RasterSeed, k)

(* the strategy `label` at the call of its solve function on s *)
Machine(label, s) ==
  [strategy |-> label,
   objs |-> <<s>>,
   stack |-> <<Frame(1, IF label \in ArrayStrategies THEN s ELSE << >>)>>,
   sunk |-> << >>,
   full |-> 0,
   done |-> FALSE]

(* no second run *)
NoRun ==
  [strategy |-> "none", objs |-> << >>, stack |-> << >>, sunk |-> << >>,
   full |-> 0, done |-> TRUE]

(* the current machine state is m *)
Is(m) ==
  /\ strategy = m.strategy
  /\ objs = m.objs
  /\ stack = m.stack
  /\ sunk = m.sunk
  /\ full = m.full
  /\ done = m.done

(* a strategy at one of the calls that lead to its hexagon: k = 0 is the   *)
(* call the table makes                                                    *)
Init ==
  /\ \E label \in Strategies, k \in 0 .. N_Hexes :
       Is(Machine(label, SeedState(label, k)))
  /\ steps = 0
  /\ other = NoRun

(* the line-by-line search at one of the calls that lead to its hexagon *)
InitLines == Init /\ strategy = "line-by-line-check"

(* a deduction strategy at the call the table makes *)
InitRuns ==
  /\ \E label \in DeduceStrategies : Is(Machine(label, NewState(label)))
  /\ steps = 0
  /\ other = NoRun

(* the two array strategies side by side, each at the call the table makes *)
InitPair ==
  /\ Is(Machine("deduce-array", NewArrayBoardState))
  /\ other = Machine("deduce-array-swap", NewArrayBoardState)
  /\ steps = 0

NextLines == LinesEnter \/ LinesLoop \/ Finish

Next ==
  \/ ChooseEnter
  \/ ChooseCreateNew
  \/ ChooseSwapAndSwapBack
  \/ DeduceCreateNew
  \/ DeduceSwapAndSwapBack
  \/ DeduceReturn
  \/ SolveFull
  \/ BoardChoose
  \/ BoardDeduce
  \/ BoardDeduceReturn
  \/ BoardFull
  \/ LinesEnter
  \/ LinesLoop
  \/ Finish

(* every single step of every strategy *)
Spec == Init /\ [][Next]_vars

(* the line-by-line search alone *)
SpecLines == InitLines /\ [][NextLines]_vars

(* whole runs of the deduction strategies, observed every 2^StrideLog     *)
(* steps                                                                   *)
SpecRuns == InitRuns /\ [][Advance]_vars

(* whole runs of the two array strategies, observed together *)
SpecPair == InitPair /\ [][Advance]_vars

(***************************************************************************)
(* Properties                                                              *)
(***************************************************************************)

Range(sq) == {sq[j] : j \in 1 .. Len(sq)}

(* the tuple sq is strictly ascending *)
Ascending(sq) == \A j \in 1 .. (Len(sq) - 1) : sq[j] < sq[j + 1]

(* the cells of the l-th line of hex_lines, by their spiral labels *)
SpiralLine(l) ==
  [j \in 1 .. Len(hex_lines[l]) |-> SpiralOfRaster[hex_lines[l][j] + 1]]

(* board, a function of the spiral labels, is a magic hexagon *)
MagicHexagon(board) ==
  /\ DOMAIN board = Cells
  /\ {board[c] : c \in Cells} = Values
  /\ \A l \in 1 .. Len(hex_lines) : SumAt(board, SpiralLine(l)) = Required_Sum

(* One view of the state objects of the three deduction strategies: the    *)
(* number of cells placed, the value of a placed cell, the unplaced values *)
(* in the order of their positions.                                        *)
Filled(o) ==
  IF strategy \in ArrayStrategies THEN o.n_cells_filled ELSE Len(o.board)

Cell(o, c) ==
  IF strategy \in ArrayStrategies THEN o.numbers[c] ELSE o.board[c + 1]

Pool(o) ==
  IF strategy \in ArrayStrategies
  THEN [j \in 1 .. (N_Hexes - o.n_cells_filled) |->
          o.numbers[o.n_cells_filled + j - 1]]
  ELSE o.available

(* the object the call of frame k was entered on: a BoardState is not     *)
(* changed by the calls on it                                              *)
Entered(k) ==
  IF strategy \in ArrayStrategies THEN stack[k].entry ELSE objs[stack[k].obj]

C2_TwelveDistinct ==
  strategy \in ArrayStrategies =>
    /\ Len(sunk) <= 12
    /\ \A j, k \in 1 .. Len(sunk) : sunk[j] = sunk[k] => j = k
    /\ done => Len(sunk) = 12

C2_Witness ==
  /\ strategy \in ArrayStrategies
  /\ done
  /\ Cardinality(Range(sunk)) = 12

(* C3: a run of BoardState::solve_deduce_last_cell_of_line from the        *)
(* initial state passes exactly 12 boards to its sink.                     *)
C3_VectorTwelve == (strategy = "deduce" /\ done) => Len(sunk) = 12

(* C4: solve<CreateNew> and solve<SwapAndSwapBack>, run side by side from  *)
(* the initial state, have passed the same sequence of boards to their     *)
(* sinks at every point of the runs, and so when both are over.            *)
C4_SameSequence ==
  (strategy = "deduce-array" /\ other.strategy = "deduce-array-swap")
    => /\ sunk = other.sunk
       /\ done = other.done

C4_Witness ==
  /\ strategy = "deduce-array"
  /\ other.strategy = "deduce-array-swap"
  /\ Len(sunk) = 3
  /\ sunk = other.sunk
  /\ sunk[3][0] = 9

(* C5: whenever a call of solve<SwapAndSwapBack> returns, numbers and      *)
(* n_cells_filled are what they were when the call was entered.            *)
C5_RestoredAtReturn ==
  [][(strategy = "deduce-array-swap" /\ Len(stack') < Len(stack))
       => objs'[Top(M).obj] = Top(M).entry]_vars

(* the call at step 18 resumes after its call at step 19 passed the board  *)
(* to the sink and returned with the object as it was entered              *)
C5_Witness ==
  /\ strategy = "deduce-array-swap"
  /\ stack # << >>
  /\ Top(M).pc = "deduced"
  /\ This(M).n_cells_filled = N_Hexes
  /\ Len(sunk) = 1
  /\ full = 1
  /\ This(M) = Placed(Top(M).entry, Top(M).i)

(* a line of hex_lines lies within the first n cells of the raster board   *)
(* and does not sum to 38                                                  *)
LineBroken(board, n) ==
  \E l \in 1 .. Len(hex_lines) :
    /\ \A j \in 1 .. Len(hex_lines[l]) : hex_lines[l][j] < n
    /\ SumAt(Vec0(board), hex_lines[l]) # Required_Sum

(* C6: the line-by-line search in raster order places no value on a board  *)
(* that has a complete line not summing to 38 (the cells before the last   *)
(* of a live board hold every line a shorter prefix holds), and passes no  *)
(* board with such a line to the sink; a board that starts 1, 2, 3 stays   *)
(* at three cells.                                                         *)
C6_BrokenLineNotExtended ==
  strategy = "line-by-line-check" =>
    /\ \A k \in 1 .. Len(objs) :
         Len(objs[k].board) >= 1 =>
           ~LineBroken(objs[k].board, Len(objs[k].board) - 1)
    /\ \A k \in 1 .. Len(sunk) :
         ~LineBroken([c \in 1 .. N_Hexes |-> sunk[k][c - 1]], N_Hexes)
    /\ \A k \in 1 .. Len(objs) :
         Len(objs[k].board) > 3 => SubSeq(objs[k].board, 1, 3) # <<1, 2, 3>>

(* the call on the board 1, 2, 3 has returned to the loop of its caller,   *)
(* which has not yet destroyed the copy                                    *)
C6_Witness ==
  /\ strategy = "line-by-line-check"
  /\ Len(objs) = Len(stack) + 1
  /\ objs[Len(objs)].board = <<1, 2, 3>>
  /\ Top(M).pc = "loop"
  /\ sunk = << >>

(* a deduce step is about to run on the object o of the top call *)
DeducePending ==
  /\ ~done
  /\ stack # << >>
  /\ strategy \in DeduceStrategies
  /\ Top(M).pc = "solve"
  /\ Filled(This(M)) \in DeduceSteps

(* 38 - s as an integer, s the sum of the cells the step of o names *)
Complement(o) ==
  Required_Sum - SumAt([c \in 0 .. (Filled(o) - 1) |-> Cell(o, c)],
                       DeduceIdxs(Filled(o)))

(* C7: a deduce step whose 38 - s is not among the unplaced values (it is  *)
(* outside 1..19, s >= 38 included, or already placed) returns at once:    *)
(* no object changes, no call is made, nothing is passed to the sink; a    *)
(* step whose 38 - s is unplaced calls solve on a state that has exactly   *)
(* that value in the next cell and the cells before it as they were.       *)
C7_DeduceStep ==
  [][DeducePending =>
       LET o == This(M)
           n == Filled(o)
       IN IF Complement(o) \in Range(Pool(o))
          THEN /\ Len(stack') = Len(stack) + 1
               /\ LET new == objs'[stack'[Len(stack')].obj]
                  IN /\ Filled(new) = n + 1
                     /\ Cell(new, n) = Complement(o)
                     /\ \A c \in 0 .. (n - 1) : Cell(new, c) = Cell(o, c)
                     /\ Range(Pool(new)) = Range(Pool(o)) \ {Complement(o)}
               /\ sunk' = sunk
          ELSE /\ stack' = Pop(stack)
               /\ objs' = objs
               /\ sunk' = sunk
               /\ full' = full]_vars

(* a deduce step has placed the value 38 - s, and the deduce step of the   *)
(* call it made finds s >= 38, where 38 - s is not an 8-bit value          *)
C7_Witness ==
  /\ DeducePending
  /\ Complement(This(M)) <= 0
  /\ U8(Complement(This(M))) >= 219
  /\ Len(stack) >= 2
  /\ stack[Len(stack) - 1].pc = "deduced"

(* choose is about to run on the object of the top call *)
ChoosePending ==
  /\ ~done
  /\ stack # << >>
  /\ strategy \in DeduceStrategies
  /\ Top(M).pc = "solve"
  /\ Filled(This(M)) \in ChooseSteps

(* choose has just called solve: the top call is the one iteration `tried` *)
(* of the choose of the call below it made                                 *)
ChooseCalled ==
  /\ strategy \in DeduceStrategies
  /\ Len(stack) >= 2
  /\ Top(M).pc = "solve"
  /\ stack[Len(stack) - 1].pc \in {"first", "loop"}

(* C8 as stated: whenever choose runs, the unplaced values are in          *)
(* ascending order of value: BoardState::available and the tail            *)
(* numbers[n_cells_filled..18] of ArrayBoardState.                         *)
C8_PoolAscending == ChoosePending => Ascending(Pool(This(M)))

(* C8, amended: choose tries the unplaced values in the order of their     *)
(* positions in the pool: the call of iteration i runs on a state that has *)
(* the i-th unplaced value of the state choose was entered on in the next  *)
(* cell.  BoardState::available is ascending at every choose; the tail of  *)
(* ArrayBoardState is ascending at the choose of step 0.                   *)
C8_PositionalOrder ==
  /\ (ChoosePending /\ (strategy = "deduce" \/ Filled(This(M)) = 0))
       => Ascending(Pool(This(M)))
  /\ ChooseCalled =>
       \E k \in {Len(stack) - 1} : \E o \in {Entered(k)} :
         \E n \in {Filled(o)} : \E new \in {This(M)} :
           LET tried == IF strategy = "deduce" THEN stack[k].i + 1
                        ELSE IF stack[k].pc = "first" THEN 1
                        ELSE stack[k].i - n + 1
           IN /\ Filled(new) = n + 1
              /\ Cell(new, n) = Pool(o)[tried]
              /\ \A c \in 0 .. (n - 1) : Cell(new, c) = Cell(o, c)

(* choose on an ArrayBoardState whose tail is not ascending has called     *)
(* solve in its third iteration, on the third value of the tail, which is  *)
(* larger than the fourth                                                  *)
C8_Witness ==
  /\ ChooseCalled
  /\ strategy \in ArrayStrategies
  /\ LET k == Len(stack) - 1
         o == Entered(k)
     IN /\ stack[k].pc = "loop"
        /\ stack[k].i = Filled(o) + 2
        /\ Pool(o)[3] > Pool(o)[4]
        /\ Cell(This(M), Filled(o)) = Pool(o)[3]

(* C9: every call of ArrayBoardState::solve that finds the board full      *)
(* passes the board to the sink: spiral_solution_is_correct has not        *)
(* returned false.                                                         *)
C9_FullBoardsAreSunk == strategy \in ArrayStrategies => full = Len(sunk)

C9_Witness ==
  /\ strategy = "deduce-array"
  /\ full = 4
  /\ Len(sunk) = 4
  /\ ~done

(* C10: in every state of every strategy, the placed and the unplaced      *)
(* values of every live object are 1..19, each once: board and available   *)
(* of a BoardState together have 19 elements, numbers of an                *)
(* ArrayBoardState is a permutation and 0 <= n_cells_filled <= 19.         *)
C10_ExactlyOnce ==
  \A k \in 1 .. Len(objs) :
    LET o == objs[k]
    IN IF strategy \in ArrayStrategies
       THEN /\ DOMAIN o.numbers = Cells
            /\ {o.numbers[c] : c \in Cells} = Values
            /\ o.n_cells_filled \in 0 .. N_Hexes
       ELSE /\ Len(o.board) + Len(o.available) = N_Hexes
            /\ Range(o.board \o o.available) = Values

(* the vector engine, 12 calls below the empty board, with a board that   *)
(* is not in ascending order                                               *)
C10_Witness ==
  /\ strategy = "deduce"
  /\ Len(objs) = 13
  /\ Len(objs[1].board) = 0
  /\ Len(objs[13].board) = 12
  /\ ~Ascending(objs[13].board)
  /\ Len(objs[13].available) = 7

====
